---- MODULE Spec2Model ----
(***************************************************************************)
(* Model of command/agent/config/config.go: LoadConfig and its helpers     *)
(* parseAutoAuth, parseMethod and parseSinks.                              *)
(*                                                                         *)
(* A load is one sequential run.  The state holds the input (what is at    *)
(* the path and, for a readable file, the tree hcl.Parse produces), the    *)
(* process environment, the Config under construction, the locals of the   *)
(* sink loop, the pair LoadConfig returns, and two logs of what the run    *)
(* touched (sink items examined, environment variables read).              *)
(*                                                                         *)
(* Strings the code computes on (mount paths, method types, sink labels)   *)
(* are sequences of one-character strings; strings the code only compares  *)
(* or passes on are TLA+ strings.                                          *)
(***************************************************************************)
EXTENDS Naturals, Sequences, FiniteSets

VARIABLES pc, input, env, result, ts, idx, ret, examined, envReads

vars == <<pc, input, env, result, ts, idx, ret, examined, envReads>>

(***************************************************************************)
(* Bounds of the model.                                                    *)
(***************************************************************************)
\* most auto_auth blocks in a document, and most method blocks in auto_auth
MaxBlocks == 2
\* most sink blocks in auto_auth
MaxSinks == 2
\* longest method type and mount_path, in characters
MaxLen == 2

(***************************************************************************)
(* Values.                                                                 *)
(***************************************************************************)
\* a nil pointer / nil slice element
Nil == [nil |-> TRUE]

\* the characters method types and mount paths are built from
Alphabet == {"a", "/"}

Strings(n) == UNION {[1..k -> Alphabet] : k \in 0..n}

\* a value of the generic map hcl.DecodeObject fills (map[string]interface{}),
\* or the absence of the key
Absent == [kind |-> "absent", s |-> ""]

Str(s) == [kind |-> "string", s |-> s]

Num(s) == [kind |-> "number", s |-> s]

\* the comma-ok lookup  raw, ok := m[key]
Has(m, key) == m[key].kind # "absent"

\* the comma-ok type assertion  raw.(string)
IsString(raw) == raw.kind = "string"

\* a field of the method block: an optional string
NoField == [present |-> FALSE, s |-> <<>>]

Field(s) == [present |-> TRUE, s |-> s]

(***************************************************************************)
(* Errors.  A nil error is NoErr.  An error carries the violations it      *)
(* reports, each with the prefix multierror.Prefix put before it, and the  *)
(* contexts errwrap.Wrapf wrapped around it, outermost first.              *)
(***************************************************************************)
NoErr == [wrap |-> <<>>, errors |-> <<>>]

NoPrefix == [has |-> FALSE, type |-> <<>>]

\* errors.New / fmt.Errorf
NewErr(msg) == [wrap |-> <<>>, errors |-> <<[prefix |-> NoPrefix, msg |-> msg]>>]

\* multierror.Prefix(err, fmt.Sprintf("sink.%s", tsType)) of a plain error
Prefix(err, tsType) ==
    [wrap |-> err.wrap,
     errors |-> [i \in 1..Len(err.errors) |->
                    [prefix |-> [has |-> TRUE, type |-> tsType],
                     msg |-> err.errors[i].msg]]]

\* errwrap.Wrapf(ctx + ": {{err}}", err)
Wrapf(ctx, err) == [wrap |-> <<ctx>> \o err.wrap, errors |-> err.errors]

(***************************************************************************)
(* String functions.                                                       *)
(***************************************************************************)
\* strings.TrimSuffix(s, suffix): s without the suffix when s ends with it
TrimSuffix(s, suffix) ==
    IF /\ Len(s) >= Len(suffix)
       /\ SubSeq(s, Len(s) - Len(suffix) + 1, Len(s)) = suffix
    THEN SubSeq(s, 1, Len(s) - Len(suffix))
    ELSE s

ToLowerChar(c) ==
    CASE c = "F" -> "f"
      [] c = "G" -> "g"
      [] OTHER -> c

\* strings.ToLower
ToLower(s) == [i \in 1..Len(s) |-> ToLowerChar(s[i])]

\* the literal "auth/" of fmt.Sprintf("auth/%s", m.Type)
AuthSlash == <<"a", "u", "t", "h", "/">>

(***************************************************************************)
(* The input.  What hcl.Parse returns is an ordered tree; list.Filter(key) *)
(* keeps the items under key in declaration order, so the tree is held as  *)
(* its filtered lists: the auto_auth items of the root, and the method and *)
(* sink items of an auto_auth block.                                       *)
(***************************************************************************)
SeqsUpTo(S, n) == UNION {[1..k -> S] : k \in 0..n}

Copies(x, k) == [i \in 1..k |-> x]

\* item.Val of a method block: what hcl.DecodeObject(&m, item.Val) reads
MethodItem(val, type, mountPath) ==
    [val |-> val, type |-> type, mount_path |-> mountPath]

UndecodableMethod == MethodItem("undecodable", NoField, NoField)

\* method { type = "a" }
SampleMethod == MethodItem("object", Field(<<"a">>), NoField)

\* every decodable method block with type and mount_path of at most MaxLen
\* characters, each present or absent
MethodItems ==
    {UndecodableMethod} \cup
    {MethodItem("object", t, p) :
        t \in {NoField} \cup {Field(s) : s \in Strings(MaxLen)},
        p \in {NoField} \cup {Field(s) : s \in Strings(MaxLen)}}

\* the generic map of a sink block, with the five keys parseSinks looks up
SinkMap(wt, dt, dp, aad, aev) ==
    [wrap_ttl |-> wt, dh_type |-> dt, dh_path |-> dp, aad |-> aad,
     aad_env_var |-> aev]

EmptyMap == SinkMap(Absent, Absent, Absent, Absent, Absent)

\* a sink item: its label keys (item.Keys after Filter), and item.Val
SinkItem(keys, val, m) == [keys |-> keys, val |-> val, m |-> m]

\* sink { ... } with no label: nothing but the keys is looked at
UnlabelledSink == SinkItem(<<>>, "object", EmptyMap)

\* sink "f" { }
SampleSink == SinkItem(<<<<"f">>>>, "object", EmptyMap)

Labels == {<<"f">>, <<"G">>}

EnvNames == {"E"}

EnvValues == {"", "v"}

\* sink blocks for documents with several sinks: both labels, each key of the
\* DH trio absent or set to a valid value
SinkItemsFew ==
    {UnlabelledSink} \cup
    {SinkItem(<<l>>, "undecodable", EmptyMap) : l \in Labels} \cup
    {SinkItem(<<l>>, "object", SinkMap(Absent, dt, dp, Absent, aev)) :
        l \in Labels,
        dt \in {Absent, Str("curve25519")},
        dp \in {Absent, Str("/p")},
        aev \in {Absent, Str("E")}}

\* sink blocks for documents with one sink: every key absent, of the wrong
\* type, empty, valid or invalid
SinkItemsAll ==
    {UnlabelledSink} \cup
    {SinkItem(<<l>>, "undecodable", EmptyMap) : l \in Labels} \cup
    {SinkItem(<<l>>, "object", SinkMap(wt, dt, dp, aad, aev)) :
        l \in Labels,
        wt \in {Absent, Str("5m"), Str("bad"), Num("30")},
        dt \in {Absent, Num("30"), Str(""), Str("curve25519"), Str("bad")},
        dp \in {Absent, Num("30"), Str(""), Str("/p")},
        aad \in {Absent, Num("30"), Str(""), Str("x")},
        aev \in {Absent, Num("30"), Str("E")}}

AutoAuthItem(val, methods, sinks) ==
    [val |-> val, methods |-> methods, sinks |-> sinks]

\* auto_auth { method { type = "a" }  sink "f" { } }
SampleAutoAuth == AutoAuthItem("object", <<SampleMethod>>, <<SampleSink>>)

Tree(autoAuth) == [pid_file |-> "./pidfile", autoAuth |-> autoAuth]

EmptyTree == Tree(<<>>)

\* a list of k items of which the code looks at the count alone
MethodLists(items) ==
    {<<>>} \cup {<<m>> : m \in items}
           \cup {Copies(SampleMethod, k) : k \in 2..MaxBlocks}

\* documents that differ in their block structure
TreesStructure ==
    {Tree(<<>>)} \cup
    {Tree(Copies(SampleAutoAuth, k)) : k \in 2..MaxBlocks} \cup
    {Tree(<<AutoAuthItem(v, <<>>, <<>>)>>) : v \in {"undecodable", "notobject"}} \cup
    {Tree(<<AutoAuthItem("object", ms, ss)>>) :
        ms \in MethodLists({UndecodableMethod, SampleMethod}),
        ss \in SeqsUpTo(SinkItemsFew, MaxSinks)}

\* documents that differ in their method block
TreesMethod ==
    {Tree(<<AutoAuthItem("object", <<m>>, ss)>>) :
        m \in MethodItems, ss \in {<<>>, <<SampleSink>>}}

\* documents that differ in the fields of their one sink block
TreesFields ==
    {Tree(<<AutoAuthItem("object", <<SampleMethod>>, <<s>>)>>) :
        s \in SinkItemsAll}

\* what is at the path: no file, a directory, an unreadable file, a file that
\* does not parse, one whose root does not decode, or one holding a tree
Inputs ==
    {[kind |-> k, tree |-> EmptyTree] :
        k \in {"nofile", "dir", "unreadable", "syntax", "baddecode", "notlist"}}
    \cup
    {[kind |-> "tree", tree |-> t] :
        t \in TreesStructure \cup TreesMethod \cup TreesFields}

Envs == [EnvNames -> EnvValues]

(***************************************************************************)
(* parseMethod, after the cardinality check.                               *)
(***************************************************************************)
\* DecodeMethod as it would be with Type left out of the decoding
DecodeMethodNoType(item) ==
    [Type |-> <<>>,
     MountPath |-> IF item.mount_path.present THEN item.mount_path.s ELSE <<>>]

\* hcl.DecodeObject(&m, item.Val): a key that is absent leaves the zero value
DecodeMethod(item) ==
    [Type |-> IF item.type.present THEN item.type.s ELSE <<>>,
     MountPath |-> IF item.mount_path.present THEN item.mount_path.s ELSE <<>>]

\* "Default to Vault's default"
DefaultMountPath(m) ==
    IF m.MountPath = <<>> THEN AuthSlash \o m.Type ELSE m.MountPath

\* StandardizeMountPath as it would be without the TrimSuffix
StandardizeNothing(p) == p

\* "Standardize on no trailing slash"
StandardizeMountPath(p) == TrimSuffix(p, <<"/">>)

\* the Method that parseMethod assigns to result.AutoAuth.Method
NewMethod(item) ==
    LET m == DecodeMethod(item)
    IN  [Type |-> m.Type,
         MountPath |-> StandardizeMountPath(DefaultMountPath(m))]

(***************************************************************************)
(* The body of the loop of parseSinks.                                     *)
(***************************************************************************)
\* parseutil.ParseDurationSecond: a duration literal or a number of seconds
ParseDurationSecond(raw) ==
    CASE raw = Str("5m") -> [ok |-> TRUE, d |-> 300]
      [] raw = Num("30") -> [ok |-> TRUE, d |-> 30]
      [] OTHER -> [ok |-> FALSE, d |-> 0]

\* os.Getenv: the value of the variable, empty when it is not set
Getenv(e, name) == IF name \in DOMAIN e THEN e[name] ELSE ""

\* ResolveAAD as it would be with aad_env_var looked up before aad
ResolveAADEnvFirst(m, e) ==
    IF Has(m, "aad_env_var")
    THEN IF IsString(m.aad_env_var)
         THEN [msg |-> "", aad |-> Getenv(e, m.aad_env_var.s),
               reads |-> <<m.aad_env_var.s>>]
         ELSE [msg |-> "cannot convert 'aad_env_var' to string",
               aad |-> "", reads |-> <<>>]
    ELSE IF Has(m, "aad")
         THEN IF IsString(m.aad)
              THEN [msg |-> "", aad |-> m.aad.s, reads |-> <<>>]
              ELSE [msg |-> "cannot convert 'aad' to string", aad |-> "",
                    reads |-> <<>>]
         ELSE [msg |-> "", aad |-> "", reads |-> <<>>]

\* the aad / aad_env_var chain: the error message ("" for none), the resolved
\* AAD and the environment variables read
ResolveAAD(m, e) ==
    IF Has(m, "aad")
    THEN IF IsString(m.aad)
         THEN [msg |-> "", aad |-> m.aad.s, reads |-> <<>>]
         ELSE [msg |-> "cannot convert 'aad' to string", aad |-> "",
               reads |-> <<>>]
    ELSE IF Has(m, "aad_env_var")
         THEN IF IsString(m.aad_env_var)
              THEN [msg |-> "", aad |-> Getenv(e, m.aad_env_var.s),
                    reads |-> <<m.aad_env_var.s>>]
              ELSE [msg |-> "cannot convert 'aad_env_var' to string",
                    aad |-> "", reads |-> <<>>]
         ELSE [msg |-> "", aad |-> "", reads |-> <<>>]

\* the dh_type lookup: must be a string, and "curve25519"
ParseDHType(m) ==
    IF Has(m, "dh_type")
    THEN IF ~IsString(m.dh_type)
         THEN [msg |-> "cannot convert 'dh_type' to string", v |-> ""]
         ELSE IF m.dh_type.s = "curve25519"
              THEN [msg |-> "", v |-> m.dh_type.s]
              ELSE [msg |-> "invalid value for 'dh_type'", v |-> m.dh_type.s]
    ELSE [msg |-> "", v |-> ""]

\* the dh_path lookup: must be a string
ParseDHPath(m) ==
    IF Has(m, "dh_path")
    THEN IF ~IsString(m.dh_path)
         THEN [msg |-> "cannot convert 'dh_path' to string", v |-> ""]
         ELSE [msg |-> "", v |-> m.dh_path.s]
    ELSE [msg |-> "", v |-> ""]

\* CrossField as it would be with the default case of the switch left out
CrossFieldNoDefault(dhType, dhPath, aad) ==
    IF dhPath = "" /\ dhType = "" /\ aad # ""
    THEN "specifying AAD data without 'dh_type' does not make sense"
    ELSE ""

\* the switch over dhPath, dhType and aad: the error message, "" for none
CrossField(dhType, dhPath, aad) ==
    IF dhPath = "" /\ dhType = ""
    THEN IF aad # ""
         THEN "specifying AAD data without 'dh_type' does not make sense"
         ELSE ""
    ELSE IF dhPath # "" /\ dhType # ""
         THEN ""
         ELSE "'dh_type' and 'dh_path' must be specified together"

\* return multierror.Prefix(errors.New(msg), fmt.Sprintf("sink.%s", tsType))
SinkFail(msg, tsType, reads) ==
    [err |-> Prefix(NewErr(msg), tsType), sink |-> Nil, reads |-> reads]

\* one iteration of the loop: the error it returns (NoErr for none), the Sink
\* it appends and the environment variables it read
SinkBody(item, e) ==
    IF Len(item.keys) = 0
    THEN [err |-> NewErr("token sink type must be specified"), sink |-> Nil,
          reads |-> <<>>]
    ELSE
    LET tsType == ToLower(item.keys[1])
        m == item.m
        ttl == IF Has(m, "wrap_ttl") THEN ParseDurationSecond(m.wrap_ttl)
               ELSE [ok |-> TRUE, d |-> 0]
        dhType == ParseDHType(m)
        dhPath == ParseDHPath(m)
        aad == ResolveAAD(m, e)
        cross == CrossField(dhType.v, dhPath.v, aad.aad)
    IN  IF item.val # "object" THEN SinkFail("decode", tsType, <<>>)
        ELSE IF ~ttl.ok THEN SinkFail("wrap_ttl", tsType, <<>>)
        ELSE IF dhType.msg # "" THEN SinkFail(dhType.msg, tsType, <<>>)
        ELSE IF dhPath.msg # "" THEN SinkFail(dhPath.msg, tsType, <<>>)
        ELSE IF aad.msg # "" THEN SinkFail(aad.msg, tsType, <<>>)
        ELSE IF cross # "" THEN SinkFail(cross, tsType, aad.reads)
        ELSE [err |-> NoErr,
              sink |-> [Type |-> tsType, WrapTTL |-> ttl.d,
                        DHType |-> dhType.v, DHPath |-> dhPath.v,
                        AAD |-> aad.aad, Config |-> m],
              reads |-> aad.reads]

(***************************************************************************)
(* LoadConfig.                                                             *)
(***************************************************************************)
\* the pair a finished load returned; before that, nothing
NotReturned == [config |-> Nil, err |-> NoErr]

\* return nil, err
Fail(err) == [config |-> Nil, err |-> err]

\* FailAutoAuth as it would be returning &result beside the error
FailAutoAuthWithResult(res, err) ==
    [config |-> res, err |-> Wrapf("error parsing 'auto_auth'", err)]

\* return nil, errwrap.Wrapf("error parsing 'auto_auth': {{err}}", err)
FailAutoAuth(res, err) ==
    [config |-> Nil, err |-> Wrapf("error parsing 'auto_auth'", err)]

\* return &result, nil
Succeed(res) == [config |-> res, err |-> NoErr]

\* the Config hcl.DecodeObject(&result, obj) fills from the root: pid_file,
\* and an AutoAuth without Method or Sinks when the root has an auto_auth
DecodeRootConfig(tree) ==
    [PidFile |-> tree.pid_file,
     AutoAuth |-> IF Len(tree.autoAuth) = 0 THEN Nil
                  ELSE [Method |-> Nil, Sinks |-> <<>>]]

\* the auto_auth item, its method items and its sink items
Item == input.tree.autoAuth[1]

Init ==
    /\ pc = "stat"
    /\ input \in Inputs
    /\ env \in Envs
    /\ result = [PidFile |-> "", AutoAuth |-> Nil]
    /\ ts = <<>>
    /\ idx = 0
    /\ ret = NotReturned
    /\ examined = 0
    /\ envReads = <<>>

\* os.Stat and fi.IsDir
Stat ==
    /\ pc = "stat"
    /\ IF input.kind = "nofile"
       THEN pc' = "done" /\ ret' = Fail(NewErr("stat"))
       ELSE IF input.kind = "dir"
            THEN /\ pc' = "done"
                 /\ ret' = Fail(NewErr("location is a directory, not a file"))
            ELSE pc' = "read" /\ ret' = ret
    /\ UNCHANGED <<input, env, result, ts, idx, examined, envReads>>

\* ioutil.ReadFile
ReadFile ==
    /\ pc = "read"
    /\ IF input.kind = "unreadable"
       THEN pc' = "done" /\ ret' = Fail(NewErr("read"))
       ELSE pc' = "parse" /\ ret' = ret
    /\ UNCHANGED <<input, env, result, ts, idx, examined, envReads>>

\* hcl.Parse
Parse ==
    /\ pc = "parse"
    /\ IF input.kind = "syntax"
       THEN pc' = "done" /\ ret' = Fail(NewErr("parse"))
       ELSE pc' = "decode" /\ ret' = ret
    /\ UNCHANGED <<input, env, result, ts, idx, examined, envReads>>

\* hcl.DecodeObject(&result, obj) and the root object list
DecodeRoot ==
    /\ pc = "decode"
    /\ IF input.kind = "baddecode"
       THEN pc' = "done" /\ ret' = Fail(NewErr("decode")) /\ result' = result
       ELSE IF input.kind = "notlist"
            THEN /\ pc' = "done"
                 /\ ret' = Fail(NewErr("error parsing: file doesn't contain a root object"))
                 /\ result' = DecodeRootConfig(input.tree)
            ELSE /\ pc' = "autoAuth"
                 /\ ret' = ret
                 /\ result' = DecodeRootConfig(input.tree)
    /\ UNCHANGED <<input, env, ts, idx, examined, envReads>>

\* parseAutoAuth up to subList := subs.List
ParseAutoAuth ==
    /\ pc = "autoAuth"
    /\ IF Len(input.tree.autoAuth) # 1
       THEN /\ pc' = "done"
            /\ ret' = FailAutoAuth(result, NewErr("one and only one \"auto_auth\" block is required"))
            /\ result' = result
       ELSE IF Item.val = "undecodable"
            THEN /\ pc' = "done"
                 /\ ret' = FailAutoAuth(result, NewErr("decode"))
                 /\ result' = result
            ELSE LET a == [Method |-> Nil, Sinks |-> <<>>]
                     res == [result EXCEPT !.AutoAuth = a]
                 IN  IF Item.val # "object"
                     THEN /\ pc' = "done"
                          /\ ret' = FailAutoAuth(res, NewErr("could not parse \"auto_auth\" as an object"))
                          /\ result' = res
                     ELSE /\ pc' = "method"
                          /\ ret' = ret
                          /\ result' = res
    /\ UNCHANGED <<input, env, ts, idx, examined, envReads>>

\* MethodError as it would be with the cardinality check  len < 1
MethodErrorAtLeastOne(methods) ==
    IF Len(methods) < 1
    THEN NewErr("one and only one \"method\" block is required")
    ELSE IF methods[1].val # "object" THEN NewErr("decode") ELSE NoErr

\* the error parseMethod returns before it builds the Method: the cardinality
\* check and hcl.DecodeObject(&m, item.Val); NoErr when both pass
MethodError(methods) ==
    IF Len(methods) # 1
    THEN NewErr("one and only one \"method\" block is required")
    ELSE IF methods[1].val # "object" THEN NewErr("decode") ELSE NoErr

\* AfterMethod as it would be with parseSinks called before the method error
\* is looked at
AfterMethodAlwaysSinks(err) == "sinks"

\* where parseAutoAuth goes after parseMethod returned err
AfterMethod(err) == IF err # NoErr THEN "done" ELSE "sinks"

\* parseMethod, and the check of its error in parseAutoAuth
ParseMethod ==
    /\ pc = "method"
    /\ LET err == MethodError(Item.methods)
       IN  /\ pc' = AfterMethod(err)
           /\ IF err # NoErr
              THEN /\ ret' = FailAutoAuth(result, Wrapf("error parsing 'method'", err))
                   /\ result' = result
              ELSE /\ ret' = ret
                   /\ result' = [result EXCEPT
                                   !.AutoAuth.Method = NewMethod(Item.methods[1])]
    /\ UNCHANGED <<input, env, ts, idx, examined, envReads>>

\* the error of the cardinality check of parseSinks
SinksError(sinks) ==
    IF Len(sinks) < 1
    THEN NewErr("at least one \"sink\" block is required")
    ELSE NoErr

\* return errwrap.Wrapf("error parsing 'sink' stanzas: {{err}}", err), and
\* its wrapping in LoadConfig
FailSinks(res, err) ==
    FailAutoAuth(res, Wrapf("error parsing 'sink' stanzas", err))

\* parseSinks up to var ts []*Sink
ParseSinks ==
    /\ pc = "sinks"
    /\ LET err == SinksError(Item.sinks)
       IN  IF err # NoErr
           THEN /\ pc' = "done"
                /\ ret' = FailSinks(result, err)
                /\ UNCHANGED <<ts, idx>>
           ELSE /\ pc' = "sinkLoop"
                /\ ret' = ret
                /\ ts' = <<>>
                /\ idx' = 1
    /\ UNCHANGED <<input, env, result, examined, envReads>>

\* AppendSink as it would be putting the new Sink first
PrependSink(list, sink) == <<sink>> \o list

\* ts = append(ts, &Sink{...})
AppendSink(list, sink) == Append(list, sink)

\* one iteration of  for _, item := range sinkList.Items
SinkIteration ==
    /\ pc = "sinkLoop"
    /\ idx <= Len(Item.sinks)
    /\ LET r == SinkBody(Item.sinks[idx], env)
       IN  /\ examined' = examined + 1
           /\ envReads' = envReads \o r.reads
           /\ IF r.err # NoErr
              THEN /\ pc' = "done"
                   /\ ret' = FailSinks(result, r.err)
                   /\ UNCHANGED <<ts, idx>>
              ELSE /\ pc' = pc
                   /\ ret' = ret
                   /\ ts' = AppendSink(ts, r.sink)
                   /\ idx' = idx + 1
    /\ UNCHANGED <<input, env, result>>

\* the error of the final switch of parseAutoAuth over a.Method and a.Sinks
PresenceError(a) ==
    IF a.Method = Nil THEN NewErr("no 'method' block found")
    ELSE IF Len(a.Sinks) = 0
         THEN NewErr("at least one 'sink' block must be provided")
         ELSE NoErr

\* result.AutoAuth.Sinks = ts, the final switch, and the return of LoadConfig
FinishLoad ==
    /\ pc = "sinkLoop"
    /\ idx > Len(Item.sinks)
    /\ LET res == [result EXCEPT !.AutoAuth.Sinks = ts]
           err == PresenceError(res.AutoAuth)
       IN  /\ result' = res
           /\ ret' = IF err # NoErr THEN FailAutoAuth(res, err) ELSE Succeed(res)
    /\ pc' = "done"
    /\ UNCHANGED <<input, env, ts, idx, examined, envReads>>

Next ==
    \/ Stat
    \/ ReadFile
    \/ Parse
    \/ DecodeRoot
    \/ ParseAutoAuth
    \/ ParseMethod
    \/ ParseSinks
    \/ SinkIteration
    \/ FinishLoad

Spec == Init /\ [][Next]_vars

(***************************************************************************)
(* Properties.                                                             *)
(***************************************************************************)
\* LoadConfig has returned
Done == pc = "done"

\* LoadConfig has returned a nil error
Loaded == Done /\ ret.err = NoErr

\* the load got as far as the sink loop
InSinks == examined > 0

\* the string a map key was written with; "" when absent or not a string
Written(m, key) == IF IsString(m[key]) THEN m[key].s ELSE ""

\* the sink items the loop has examined so far
ExaminedItems ==
    IF examined = 0 THEN <<>> ELSE SubSeq(Item.sinks, 1, examined)

\* the label of a sink block in lower case
LowerLabel(label) ==
    CASE label = <<"G">> -> <<"g">>
      [] label = <<"F">> -> <<"f">>
      [] OTHER -> label

\* a sink block that parseSinks rejects, stated on the block as written: no
\* label, an undecodable body, a wrap_ttl that does not parse, a DH or AAD
\* key of the wrong type, a dh_type other than curve25519, one of dh_type and
\* dh_path without the other, or an AAD without DH
WrittenAAD(m, e) ==
    IF Has(m, "aad") THEN Written(m, "aad")
    ELSE IF IsString(m.aad_env_var) THEN Getenv(e, m.aad_env_var.s)
    ELSE ""

Invalid(item, e) ==
    \/ Len(item.keys) = 0
    \/ item.val # "object"
    \/ item.m.wrap_ttl = Str("bad")
    \/ item.m.dh_type.kind = "number"
    \/ item.m.dh_type.kind = "string" /\ item.m.dh_type.s # "curve25519"
    \/ item.m.dh_path.kind = "number"
    \/ item.m.aad.kind = "number"
    \/ ~Has(item.m, "aad") /\ item.m.aad_env_var.kind = "number"
    \/ (Written(item.m, "dh_type") = "") # (Written(item.m, "dh_path") = "")
    \/ /\ Written(item.m, "dh_type") = ""
       /\ Written(item.m, "dh_path") = ""
       /\ WrittenAAD(item.m, e) # ""

InvalidSinks == {i \in 1..Len(Item.sinks) : Invalid(Item.sinks[i], env)}

FirstInvalid == CHOOSE i \in InvalidSinks : \A j \in InvalidSinks : i <= j

\* the tag multierror.Prefix puts before the violation of a sink of this label
Tag(label) == [has |-> TRUE, type |-> LowerLabel(label)]

\* C1: when two or more sink blocks are invalid, the returned error reports
\* one violation per invalid sink, each tagged with that sink's type.
C1_EverySinkErrorReported ==
    (Done /\ InSinks /\ Cardinality(InvalidSinks) >= 2)
        => /\ Len(ret.err.errors) = Cardinality(InvalidSinks)
           /\ \A i \in InvalidSinks :
                Len(Item.sinks[i].keys) > 0
                    => \E j \in 1..Len(ret.err.errors) :
                         ret.err.errors[j].prefix = Tag(Item.sinks[i].keys[1])

\* What parseSinks does where C1 fails: with one or more invalid sink blocks
\* the loop stops at the first in declaration order; the returned error
\* reports that sink's violation alone, tagged with its type when it has a
\* label, and no later sink is examined.
FirstSinkErrorOnly ==
    (Done /\ InSinks /\ InvalidSinks # {})
        => /\ ret.config = Nil
           /\ ret.err.wrap = <<"error parsing 'auto_auth'",
                               "error parsing 'sink' stanzas">>
           /\ Len(ret.err.errors) = 1
           /\ examined = FirstInvalid
           /\ LET item == Item.sinks[FirstInvalid]
              IN  ret.err.errors[1].prefix =
                    IF Len(item.keys) = 0 THEN NoPrefix ELSE Tag(item.keys[1])

\* C2: LoadConfig returns a Config and a nil error, or a nil Config and an
\* error; a Config filled in part before a failure is never returned.
C2_Atomic ==
    /\ Done => \/ ret.config # Nil /\ ret.err = NoErr
               \/ ret.config = Nil /\ ret.err # NoErr
    /\ ~Done => ret = NotReturned

\* a load that failed in a sink after AutoAuth and Method had been assigned
C2_Witness ==
    /\ Done /\ ret.err # NoErr /\ ret.config = Nil
    /\ result.AutoAuth # Nil
    /\ result.AutoAuth.Method # Nil

\* C3: every Sink of a loaded Config has DHType "" or "curve25519", DHType
\* and DHPath both empty or both set, and AAD set only with both; a sink
\* block written otherwise never loads.
C3_SinkInvariant ==
    Loaded =>
        /\ \A i \in 1..Len(ret.config.AutoAuth.Sinks) :
             LET s == ret.config.AutoAuth.Sinks[i]
             IN  /\ s.DHType \in {"", "curve25519"}
                 /\ (s.DHType = "") <=> (s.DHPath = "")
                 /\ s.AAD # "" => (s.DHType # "" /\ s.DHPath # "")
        /\ \A i \in 1..Len(Item.sinks) :
             LET m == Item.sinks[i].m
             IN  /\ Has(m, "dh_type") => m.dh_type = Str("curve25519")
                 /\ (Written(m, "dh_type") = "") <=> (Written(m, "dh_path") = "")
                 /\ WrittenAAD(m, env) # "" => Written(m, "dh_type") # ""

\* a loaded sink with DH and a non-empty AAD
C3_Witness ==
    /\ Loaded
    /\ \E i \in 1..Len(ret.config.AutoAuth.Sinks) :
          LET s == ret.config.AutoAuth.Sinks[i]
          IN  s.DHType = "curve25519" /\ s.DHPath = "/p" /\ s.AAD # ""

\* C4: a load succeeds only with exactly one auto_auth block holding exactly
\* one method block and at least one sink block; the returned Config has an
\* AutoAuth with a Method and a non-empty Sinks.
C4_Cardinality ==
    Loaded =>
        /\ input.kind = "tree"
        /\ Len(input.tree.autoAuth) = 1
        /\ Len(Item.methods) = 1
        /\ Len(Item.sinks) >= 1
        /\ ret.config.AutoAuth # Nil
        /\ ret.config.AutoAuth.Method # Nil
        /\ Len(ret.config.AutoAuth.Sinks) >= 1

\* a successful load of a document with two sinks
C4_Witness == Loaded /\ Len(ret.config.AutoAuth.Sinks) = 2

\* whether the string ends with a slash
TrailingSlash(s) == Len(s) > 0 /\ s[Len(s)] = "/"

\* C5 (as stated): Method.MountPath of a loaded Config has no trailing slash.
C5_NoTrailingSlash ==
    Loaded => ~TrailingSlash(ret.config.AutoAuth.Method.MountPath)

\* the string without one trailing slash
StripOneTrailingSlash(s) ==
    IF TrailingSlash(s) THEN SubSeq(s, 1, Len(s) - 1) ELSE s

\* the method block parseMethod decoded
MethodBlock == Item.methods[1]

\* the Method assigned to the Config under construction
HasMethod == result.AutoAuth # Nil /\ result.AutoAuth.Method # Nil

ReadsOf(item) ==
    IF /\ Len(item.keys) > 0 /\ item.val = "object"
       /\ item.m.wrap_ttl # Str("bad")
       /\ ~Has(item.m, "dh_type") \/ item.m.dh_type = Str("curve25519")
       /\ item.m.dh_path.kind # "number"
       /\ ~Has(item.m, "aad")
       /\ IsString(item.m.aad_env_var)
    THEN <<item.m.aad_env_var.s>>
    ELSE <<>>

RECURSIVE ReadsOfAll(_)
ReadsOfAll(items) ==
    IF items = <<>> THEN <<>>
    ELSE ReadsOf(Head(items)) \o ReadsOfAll(Tail(items))

\* C7: AAD is the aad literal when aad is present (aad_env_var is then
\* neither type-checked nor read), else the value of the variable
\* aad_env_var names (empty when unset), else empty; the cross-field check
\* uses this AAD.
C7_AADPrecedence ==
    /\ \A i \in 1..Len(ts) :
         LET m == Item.sinks[i].m
         IN  /\ ts[i].AAD = WrittenAAD(m, env)
             /\ (ts[i].DHType = "" => ts[i].AAD = "")
    /\ envReads = ReadsOfAll(ExaminedItems)
    /\ (Done /\ InSinks /\ ret.err # NoErr) =>
         LET m == Item.sinks[examined].m
             msg == ret.err.errors[1].msg
         IN  /\ msg = "cannot convert 'aad_env_var' to string" => ~Has(m, "aad")
             /\ msg = "specifying AAD data without 'dh_type' does not make sense"
                  => WrittenAAD(m, env) # ""

\* a loaded sink written with both aad and a set aad_env_var: the literal is
\* the AAD and the environment was not read
C7_Witness ==
    /\ Loaded
    /\ env["E"] = "v"
    /\ Item.sinks[1].m.aad = Str("x")
    /\ Item.sinks[1].m.aad_env_var = Str("E")
    /\ ret.config.AutoAuth.Sinks[1].AAD = "x"
    /\ envReads = <<>>

\* C8: the Sinks of a loaded Config are the sink blocks in declaration
\* order, one record per block, each with the lowercased label as Type.
C8_SinksInOrder ==
    Loaded =>
        /\ Len(ret.config.AutoAuth.Sinks) = Len(Item.sinks)
        /\ \A i \in 1..Len(Item.sinks) :
             /\ ret.config.AutoAuth.Sinks[i].Type = LowerLabel(Item.sinks[i].keys[1])
             /\ ret.config.AutoAuth.Sinks[i].Config = Item.sinks[i].m

\* a loaded document whose two sinks differ in label and body
C8_Witness ==
    /\ Loaded
    /\ Len(Item.sinks) = 2
    /\ Item.sinks[1].keys = <<<<"G">>>>
    /\ Item.sinks[2].keys = <<<<"f">>>>
    /\ Item.sinks[1].m # Item.sinks[2].m

MethodFails ==
    /\ input.kind = "tree"
    /\ Len(input.tree.autoAuth) = 1
    /\ Item.val = "object"
    /\ Len(Item.methods) # 1 \/ Item.methods[1].val # "object"

\* C10: the method block is extracted before any sink block is examined;
\* when the method extraction fails the load returns the method error, no
\* sink block is examined and no environment variable is read.
C10_MethodBeforeSinks ==
    /\ (pc = "sinkLoop" \/ examined > 0 \/ envReads # <<>>)
          => HasMethod /\ ~MethodFails
    /\ MethodFails => examined = 0 /\ envReads = <<>>
    /\ (Done /\ MethodFails) =>
          /\ ret.config = Nil
          /\ ret.err.wrap = <<"error parsing 'auto_auth'", "error parsing 'method'">>

\* a load that failed in the method although its first sink names a variable
C10_Witness ==
    /\ Done /\ MethodFails
    /\ Len(Item.sinks) >= 1
    /\ Item.sinks[1].m.aad_env_var = Str("E")

====
